---- MODULE Spec2Model ----
(***************************************************************************)
(* CoPylot (src/src/copylot/build_pylot.py): one run of main().            *)
(* Text is a sequence of one-character strings; a file is a record with a  *)
(* kind ("absent", "file", "dir") and its text.                            *)
(***************************************************************************)
EXTENDS Integers, Sequences, FiniteSets, TLC

\* ------------------------------------------------------------------ bounds
\* longest line enumerated exhaustively on standard input (SpecSelector)
MaxLineLen == 3
\* deepest nesting of fallback_select's recursive re-prompt that is explored
MaxDepth == 2
\* runs of main() on the same directory (SpecRuns)
MaxRuns == 2

\* ------------------------------------------------------------------ text
NL == "\n"

RECURSIVE SeqsUpTo(_, _)
SeqsUpTo(S, n) ==
    IF n = 0 THEN {<<>>}
    ELSE LET shorter == SeqsUpTo(S, n - 1)
         IN  shorter \cup {Append(s, c) : s \in {t \in shorter : Len(t) = n - 1}, c \in S}

IsPrefix(p, s) == Len(p) <= Len(s) /\ SubSeq(s, 1, Len(p)) = p

Contains(s, t) ==
    \E i \in 0..(Len(s) - Len(t)) : SubSeq(s, i + 1, i + Len(t)) = t

\* str.strip(): whitespace removed at both ends
IsSpace(c) == c \in {" ", "\t", NL}

RECURSIVE LStrip(_)
LStrip(s) == IF s = <<>> \/ ~IsSpace(Head(s)) THEN s ELSE LStrip(Tail(s))

RECURSIVE RStrip(_)
RStrip(s) ==
    IF s = <<>> \/ ~IsSpace(s[Len(s)]) THEN s ELSE RStrip(SubSeq(s, 1, Len(s) - 1))

Strip(s) == RStrip(LStrip(s))

\* str.lower()
UpperChars == <<"A", "E", "L", "N", "O">>
LowerChars == <<"a", "e", "l", "n", "o">>

LowerChar(c) ==
    IF \E i \in DOMAIN UpperChars : UpperChars[i] = c
    THEN LowerChars[CHOOSE i \in DOMAIN UpperChars : UpperChars[i] = c]
    ELSE c

Lower(s) == [i \in DOMAIN s |-> LowerChar(s[i])]

\* str.split(sep): always at least one piece, empty pieces kept
RECURSIVE SplitFrom(_, _, _)
SplitFrom(s, sep, cur) ==
    IF s = <<>> THEN <<cur>>
    ELSE IF Head(s) = sep THEN <<cur>> \o SplitFrom(Tail(s), sep, <<>>)
    ELSE SplitFrom(Tail(s), sep, Append(cur, Head(s)))

Split(s, sep) == SplitFrom(s, sep, <<>>)

\* int(token): blanks at the ends dropped, an optional sign, then decimal digits
\* with single underscores allowed between digits; anything else is a ValueError
DigitChars == <<"0", "1", "2", "3", "4", "5", "6", "7", "8", "9">>

IsDigit(c) == \E i \in DOMAIN DigitChars : DigitChars[i] = c

DigitValue(c) == (CHOOSE i \in DOMAIN DigitChars : DigitChars[i] = c) - 1

RECURSIVE DigitsValue(_, _)
DigitsValue(ds, acc) ==
    IF ds = <<>> THEN acc
    ELSE IF Head(ds) = "_" THEN DigitsValue(Tail(ds), acc)
    ELSE DigitsValue(Tail(ds), acc * 10 + DigitValue(Head(ds)))

WellFormedDigits(ds) ==
    /\ ds # <<>>
    /\ IsDigit(ds[1])
    /\ \A i \in 2..Len(ds) :
          IsDigit(ds[i]) \/ (ds[i] = "_" /\ IsDigit(ds[i - 1]) /\ i < Len(ds))

ValueError == [ok |-> FALSE, val |-> 0]

PyInt(tok) ==
    LET t      == Strip(tok)
        signed == t # <<>> /\ Head(t) \in {"+", "-"}
        ds     == IF signed THEN Tail(t) ELSE t
    IN  IF ~WellFormedDigits(ds)
        THEN ValueError
        ELSE [ok  |-> TRUE,
              val |-> IF signed /\ Head(t) = "-"
                      THEN 0 - DigitsValue(ds, 0) ELSE DigitsValue(ds, 0)]

\* list[i] with Python's indexing: 0-based, negative i counts from the end
PyIndex(list, i) == IF i >= 0 THEN list[i + 1] ELSE list[Len(list) + i + 1]

\* ------------------------------------------------------------------ files
NoFile == [kind |-> "absent", data |-> <<>>]
Subdir == [kind |-> "dir", data |-> <<>>]
TextFile(s) == [kind |-> "file", data |-> s]

\* Path.exists()
Exists(f) == f.kind # "absent"

Ba == <<"b", "a">>
Bar == <<"b", "a", "r">>
Foo == <<"f", "o", "o">>
Universal == <<"u", "n", "i", "v", "e", "r", "s", "a", "l">>
PyCore == <<"p", "y", "_", "c", "o", "r", "e">>

\* an entry of src/mods: <stem>.<ext>
Entry(stem, ext) == [stem |-> stem, ext |-> ext]
Md(stem) == Entry(stem, "md")
DirEntries == {Md(Ba), Md(Bar), Md(Foo), Entry(Bar, "txt")}

\* the text a module document holds when it is not empty
ModText(stem) == <<"#", " ">> \o stem \o <<NL>>

\* the states of src/mods explored: ba.md and bar.md absent, empty or with text,
\* foo.md absent, a directory or with text, bar.txt always there
ModsDirs ==
    {[e \in DirEntries |->
        IF e = Md(Ba) THEN a ELSE IF e = Md(Bar) THEN b
        ELSE IF e = Md(Foo) THEN c ELSE TextFile(<<"t">>)] :
        a \in {NoFile, TextFile(<<>>), TextFile(ModText(Ba))},
        b \in {NoFile, TextFile(<<>>), TextFile(ModText(Bar))},
        c \in {NoFile, Subdir, TextFile(ModText(Foo))}}

\* ------------------------------------------------------------------ Module Catalog
\* str < str: by code point, a proper prefix first
CodeOrder == <<"_", "a", "b", "c", "e", "f", "i", "l", "n", "o", "p", "r", "s", "t", "u", "v", "x", "y">>
CodeRank(c) == CHOOSE i \in DOMAIN CodeOrder : CodeOrder[i] = c

RECURSIVE StrLess(_, _)
StrLess(a, b) ==
    IF b = <<>> THEN FALSE
    ELSE IF a = <<>> THEN TRUE
    ELSE IF Head(a) = Head(b) THEN StrLess(Tail(a), Tail(b))
    ELSE CodeRank(Head(a)) < CodeRank(Head(b))

\* sorted(list of distinct strings)
RECURSIVE Sorted(_)
Sorted(S) ==
    IF S = {} THEN <<>>
    ELSE LET least == CHOOSE x \in S : \A y \in S \ {x} : StrLess(x, y)
         IN  <<least>> \o Sorted(S \ {least})

\* mods_dir.glob("*.md"), regular files only, stems
GlobMdStems(entries) ==
    {e.stem : e \in {d \in DOMAIN entries : d.ext = "md" /\ entries[d].kind = "file"}}

\* mutant: the is_dir() test is forgotten
ModsDirFatalUnlessExists(dirKind) == ~(dirKind # "absent")

\* get_available_mods, line 39: not mods_dir.exists() or not mods_dir.is_dir()
ModsDirFatal(dirKind) == ~(dirKind # "absent") \/ ~(dirKind = "dir")

\* ------------------------------------------------------------------ Selector
\* mutant: the lower limit of the range test is off by one
InRangeFromZero(idx, n) == 0 <= idx /\ idx <= n

\* fallback_select, line 113: the names at the 1-based indices that are in range
InRange(idx, n) == 1 <= idx /\ idx <= n

RECURSIVE NamesAt(_, _)
NamesAt(indices, available) ==
    IF indices = <<>> THEN <<>>
    ELSE LET rest == NamesAt(Tail(indices), available)
         IN  IF InRange(Head(indices), Len(available))
             THEN <<PyIndex(available, Head(indices) - 1)>> \o rest
             ELSE rest

\* mutant: a piece that is no integer is skipped instead of failing the line
RECURSIVE ParseIndicesLenient(_)
ParseIndicesLenient(pieces) ==
    IF pieces = <<>> THEN [ok |-> TRUE, vals |-> <<>>]
    ELSE LET tok  == Strip(Head(pieces))
             rest == ParseIndicesLenient(Tail(pieces))
         IN  IF tok = <<>> \/ ~PyInt(tok).ok THEN rest
             ELSE [ok |-> TRUE, vals |-> <<PyInt(tok).val>> \o rest.vals]

\* fallback_select, line 111: int() of every non-blank piece; one ValueError fails all
RECURSIVE ParseIndices(_)
ParseIndices(pieces) ==
    IF pieces = <<>> THEN [ok |-> TRUE, vals |-> <<>>]
    ELSE LET tok  == Strip(Head(pieces))
             rest == ParseIndices(Tail(pieces))
         IN  IF tok = <<>> THEN rest
             ELSE IF ~PyInt(tok).ok \/ ~rest.ok THEN [ok |-> FALSE, vals |-> <<>>]
             ELSE [ok |-> TRUE, vals |-> <<PyInt(tok).val>> \o rest.vals]

\* fallback_select, lines 102-117, on one line of input: the selection returned,
\* or ok = FALSE when the line is rejected and the prompt repeats
FallbackParse(line, available) ==
    LET selection == Lower(Strip(line))
        parsed    == ParseIndices(Split(selection, ","))
    IN  IF selection = <<"a", "l", "l">> THEN [ok |-> TRUE, mods |-> available]
        ELSE IF selection = <<"n", "o", "n", "e">> THEN [ok |-> TRUE, mods |-> <<>>]
        ELSE IF parsed.ok THEN [ok |-> TRUE, mods |-> NamesAt(parsed.vals, available)]
        ELSE [ok |-> FALSE, mods |-> <<>>]

\* what questionary.checkbox(...).ask() can return: None (cancelled), or the
\* checked choices in the order of the choices
RECURSIVE SubSeqs(_)
SubSeqs(s) ==
    IF s = <<>> THEN {<<>>}
    ELSE LET rest == SubSeqs(Tail(s))
         IN  rest \cup {<<Head(s)>> \o r : r \in rest}

CheckboxAnswers(choices) ==
    {[none |-> TRUE, items |-> <<>>]} \cup {[none |-> FALSE, items |-> x] : x \in SubSeqs(choices)}

\* selected or []
OrEmpty(answer) == IF answer.none \/ answer.items = <<>> THEN <<>> ELSE answer.items

\* ------------------------------------------------------------------ Document Reader
\* read_markdown_file: the text; "" and a warning when the file is not found; any
\* other failure to open it (here: the path is a directory) is not caught
ReadMarkdownFile(f) ==
    IF f.kind = "file" THEN [raised |-> FALSE, text |-> f.data, printed |-> <<>>]
    ELSE IF f.kind = "absent" THEN [raised |-> FALSE, text |-> <<>>, printed |-> <<"warn_not_found">>]
    ELSE [raised |-> TRUE, text |-> <<>>, printed |-> <<>>]

\* ------------------------------------------------------------------ Assembler
SectionHeader ==
    <<"\n", "#", "#", " ", "L", "i", "b", "r", "a", "r", "y", "-", "S", "p", "e", "c",
      "i", "f", "i", "c", " ", "I", "n", "s", "t", "r", "u", "c", "t", "i", "o", "n",
      "s", "\n", "\n">>

\* mutant: the two base documents are joined in the other order
BasePrefixCoreFirst(universal_content, py_core_content) ==
    py_core_content \o <<NL, NL>> \o universal_content \o <<NL>>

\* line 173
BasePrefix(universal_content, py_core_content) ==
    universal_content \o <<NL, NL>> \o py_core_content \o <<NL>>

\* mutant: the test for empty content is dropped
WithLibAlways(combined_content, lib_content) ==
    combined_content \o lib_content \o <<NL, NL>>

\* lines 182-183
WithLib(combined_content, lib_content) ==
    IF lib_content # <<>> THEN combined_content \o lib_content \o <<NL, NL>>
    ELSE combined_content

\* lines 181-183 for one selected module; acc is the function's progress: the text
\* so far, the files read, what was printed, the modules whose text was appended
AppendLib(acc, mod, file) ==
    LET r    == ReadMarkdownFile(file)
        path == [dir |-> "mods", stem |-> mod]
    IN  IF r.raised
        THEN [acc EXCEPT !.raised = TRUE, !.reads = Append(@, path)]
        ELSE [acc EXCEPT !.reads   = Append(@, path),
                         !.printed = @ \o r.printed,
                         !.content = WithLib(@, r.text),
                         !.emitted = IF r.text # <<>> THEN Append(@, mod) ELSE @]

\* lines 180-183
RECURSIVE AppendLibs(_, _, _)
AppendLibs(acc, mods, entries) ==
    IF mods = <<>> \/ acc.raised THEN acc
    ELSE AppendLibs(AppendLib(acc, Head(mods), entries[Md(Head(mods))]), Tail(mods), entries)

\* mutant: the section header is written whether or not anything is selected
LibrarySectionAlways(acc, selected_mods, entries) ==
    AppendLibs([acc EXCEPT !.content = @ \o SectionHeader], selected_mods, entries)

\* lines 176-183
LibrarySection(acc, selected_mods, entries) ==
    IF selected_mods # <<>>
    THEN AppendLibs([acc EXCEPT !.content = @ \o SectionHeader], selected_mods, entries)
    ELSE acc

\* generate_instructions
GenerateInstructions(universalFile, coreFile, entries, selected_mods) ==
    LET u   == ReadMarkdownFile(universalFile)
        c   == ReadMarkdownFile(coreFile)
        pu  == [dir |-> "uni", stem |-> Universal]
        pc_ == [dir |-> "uni", stem |-> PyCore]
        failed(reads, printed) ==
            [raised |-> TRUE, content |-> <<>>, reads |-> reads, printed |-> printed,
             emitted |-> <<>>]
    IN  IF u.raised THEN failed(<<pu>>, <<>>)
        ELSE IF c.raised THEN failed(<<pu, pc_>>, u.printed)
        ELSE LibrarySection(
                 [raised |-> FALSE, content |-> BasePrefix(u.text, c.text),
                  reads |-> <<pu, pc_>>, printed |-> u.printed \o c.printed,
                  emitted |-> <<>>],
                 selected_mods, entries)

\* ------------------------------------------------------------------ state
VARIABLES
    modsDir,        \* what src/mods is: "dir", "file" or "absent"
    mods,           \* the entries of src/mods: DirEntries -> file
    universal,      \* src/uni/universal.md
    core,           \* src/uni/py_core.md
    out,            \* copilot-instructions.md
    bak,            \* copilot-instructions.md.bak
    hasQuestionary, \* HAS_QUESTIONARY
    pc,             \* where main() is
    console,        \* the messages printed, in order
    catalog,        \* available_mods
    selected,       \* selected_mods
    stdin,          \* the line typed at the text prompt: none, typed, accepted
    depth,          \* nested fallback_select calls below the first
    instructions,   \* the text generate_instructions returned
    reads,          \* the files read_markdown_file was called on
    emitted,        \* the modules whose text was appended to the output
    raised,         \* the uncaught exception ending the run: none, read, copy, write
    exitStatus,     \* none while running, then "0" or "1"
    written         \* the texts save_instructions has written, one per completed run

vars == <<modsDir, mods, universal, core, out, bak, hasQuestionary, pc, console,
          catalog, selected, stdin, depth, instructions, reads, emitted, raised,
          exitStatus, written>>

fsIn == <<modsDir, universal, core, hasQuestionary>>
run  == <<catalog, selected, stdin, depth, instructions, reads, emitted>>

NoLine == [state |-> "none", text |-> <<>>]

InitRun ==
    /\ pc = "start"
    /\ console = <<>>
    /\ catalog = <<>>
    /\ selected = <<>>
    /\ stdin = NoLine
    /\ depth = 0
    /\ instructions = <<>>
    /\ reads = <<>>
    /\ emitted = <<>>
    /\ raised = "none"
    /\ exitStatus = "none"

OldText == <<"o", "l", "d", NL>>
OlderText == <<"o", "l", "d", "e", "r", NL>>

Init ==
    /\ modsDir \in {"dir", "file", "absent"}
    /\ mods \in ModsDirs
    /\ universal \in {NoFile, Subdir, TextFile(<<"U">>)}
    /\ core \in {NoFile, TextFile(<<"C", NL>>)}
    /\ \E before \in {<<NoFile, NoFile>>, <<TextFile(OldText), TextFile(OlderText)>>} :
          out = before[1] /\ bak = before[2]
    /\ hasQuestionary \in BOOLEAN
    /\ written = <<>>
    /\ InitRun

\* ------------------------------------------------------------------ standard input
\* the characters of the lines enumerated exhaustively
LineChars == {"0", "1", "3", "-", "+", "_", ",", " ", "x"}

\* lines the whole-run specification draws from
Lines ==
    { <<"a", "l", "l">>, <<" ", "A", "L", "L">>, <<"n", "o", "n", "e">>,
      <<"N", "o", "n", "e", " ">>, <<"a", "b", "c">>, <<"1", ",", "x">>,
      <<"1", ",", "3">>, <<"3", ",", "1">>, <<"1", ",", "1">>, <<"5">>, <<"2">>,
      <<>>, <<"0", ",", "-", "1", ",", " ", "2">> }

AllLines == SeqsUpTo(LineChars, MaxLineLen) \cup Lines

\* ------------------------------------------------------------------ actions
Terminate(how, status) ==
    /\ pc' = how
    /\ exitStatus' = status

\* main, lines 213-221: the banner, then get_available_mods
GetAvailableMods ==
    /\ pc = "start"
    /\ IF ModsDirFatal(modsDir)
       THEN /\ console' = console \o <<"header", "err_libdir">>
            /\ Terminate("exited", "1")
            /\ UNCHANGED catalog
       ELSE /\ console' = Append(console, "header")
            /\ catalog' = Sorted(GlobMdStems(mods))
            /\ pc' = "select"
            /\ UNCHANGED exitStatus
    /\ UNCHANGED <<fsIn, written, mods, out, bak, selected, stdin, depth, instructions, reads,
                   emitted, raised>>

\* fallback_select, lines 93-102, up to the read of a line; printed is what the
\* caller printed just before
EnterFallback(printed) ==
    IF catalog = <<>>
    THEN /\ console' = console \o printed \o <<"no_libs">>
         /\ selected' = <<>>
         /\ pc' = "generate"
    ELSE /\ console' = console \o printed \o <<"list", "prompt">>
         /\ selected' = selected
         /\ pc' = "fallback"

\* select_libraries, and interactive_select up to the call of questionary
SelectLibraries ==
    /\ pc = "select"
    /\ IF hasQuestionary
       THEN IF catalog = <<>>
            THEN /\ console' = Append(console, "no_libs")
                 /\ selected' = <<>>
                 /\ pc' = "generate"
            ELSE /\ console' = Append(console, "checkbox")
                 /\ selected' = selected
                 /\ pc' = "interactive"
       ELSE EnterFallback(<<"note_install">>)
    /\ UNCHANGED <<fsIn, written, mods, out, bak, catalog, stdin, depth, instructions, reads,
                   emitted, raised, exitStatus>>

\* interactive_select, lines 71-76: the checklist is answered
InteractiveAnswer ==
    /\ pc = "interactive"
    /\ \E answer \in CheckboxAnswers(catalog) : selected' = OrEmpty(answer)
    /\ pc' = "generate"
    /\ UNCHANGED <<fsIn, written, mods, out, bak, console, catalog, stdin, depth, instructions,
                   reads, emitted, raised, exitStatus>>

\* mutant: the exception is not caught
InteractiveErrorPropagates ==
    /\ pc = "interactive"
    /\ raised' = "interactive"
    /\ Terminate("crashed", "1")
    /\ UNCHANGED <<fsIn, written, mods, out, bak, console, run>>

\* interactive_select, lines 77-80: questionary raises an Exception
InteractiveError ==
    /\ pc = "interactive"
    /\ EnterFallback(<<"err_interactive">>)
    /\ UNCHANGED <<fsIn, written, mods, out, bak, catalog, stdin, depth, instructions, reads,
                   emitted, raised, exitStatus>>

\* the user enters a line at the "> " prompt; past MaxDepth re-prompts only
\* accepted lines are explored
UserTypes(lines) ==
    /\ pc = "fallback"
    /\ stdin.state = "none"
    /\ \E line \in lines :
          /\ depth < MaxDepth \/ FallbackParse(line, catalog).ok
          /\ stdin' = [state |-> "typed", text |-> line]
    /\ UNCHANGED <<fsIn, written, mods, out, bak, pc, console, catalog, selected, depth,
                   instructions, reads, emitted, raised, exitStatus>>

TypeLine == UserTypes(Lines)

TypeAnyLine == UserTypes(AllLines)

\* fallback_select, lines 102-117: input() returns the line
FallbackRead ==
    /\ pc = "fallback"
    /\ stdin.state = "typed"
    /\ LET r == FallbackParse(stdin.text, catalog)
       IN  IF r.ok
           THEN /\ selected' = r.mods
                /\ stdin' = [stdin EXCEPT !.state = "accepted"]
                /\ pc' = "generate"
                /\ UNCHANGED <<console, depth>>
           ELSE /\ console' = console \o <<"invalid", "list", "prompt">>
                /\ depth' = depth + 1
                /\ stdin' = NoLine
                /\ UNCHANGED <<selected, pc>>
    /\ UNCHANGED <<fsIn, written, mods, out, bak, catalog, instructions, reads, emitted, raised,
                   exitStatus>>

\* a module document is deleted while the program waits for the selection
RemoveModFile ==
    /\ pc \in {"interactive", "fallback"}
    /\ \E i \in DOMAIN catalog :
          /\ mods[Md(catalog[i])].kind = "file"
          /\ mods' = [mods EXCEPT ![Md(catalog[i])] = NoFile]
    /\ UNCHANGED <<fsIn, written, out, bak, pc, console, catalog, selected, stdin, depth,
                   instructions, reads, emitted, raised, exitStatus>>

\* main, lines 226-232: the summary line, then generate_instructions
Generate ==
    /\ pc = "generate"
    /\ LET g == GenerateInstructions(universal, core, mods, selected)
           summary == IF selected # <<>> THEN "with_libs" ELSE "base_only"
       IN  /\ console' = Append(console, summary) \o g.printed
           /\ reads' = g.reads
           /\ emitted' = g.emitted
           /\ IF g.raised
              THEN /\ Terminate("crashed", "1")
                   /\ raised' = "read"
                   /\ UNCHANGED instructions
              ELSE /\ instructions' = g.content
                   /\ pc' = "save"
                   /\ UNCHANGED <<raised, exitStatus>>
    /\ UNCHANGED <<fsIn, written, mods, out, bak, catalog, selected, stdin, depth>>

\* save_instructions, lines 196-199
SaveInstructions ==
    /\ pc = "save"
    /\ pc' = IF Exists(out) THEN "backup" ELSE "write"
    /\ UNCHANGED <<fsIn, written, mods, out, bak, console, run, raised, exitStatus>>

\* mutant: the backup is taken of the new text instead of the existing file
BackupCopyOfNew ==
    /\ pc = "backup"
    /\ bak' = TextFile(instructions)
    /\ console' = Append(console, "backed_up")
    /\ pc' = "write"
    /\ UNCHANGED <<fsIn, written, mods, out, run, raised, exitStatus>>

\* save_instructions, lines 200-202: shutil.copy2 succeeds
BackupCopy ==
    /\ pc = "backup"
    /\ bak' = out
    /\ console' = Append(console, "backed_up")
    /\ pc' = "write"
    /\ UNCHANGED <<fsIn, written, mods, out, run, raised, exitStatus>>

\* mutant: a failed copy is swallowed and the write goes ahead
BackupFailsIgnored ==
    /\ pc = "backup"
    /\ bak' \in {bak, TextFile(<<>>), out}
    /\ pc' = "write"
    /\ UNCHANGED <<fsIn, written, mods, out, console, run, raised, exitStatus>>

\* shutil.copy2 raises: the backup is untouched, truncated, or fully copied
BackupFails ==
    /\ pc = "backup"
    /\ bak' \in {bak, TextFile(<<>>), out}
    /\ raised' = "copy"
    /\ Terminate("crashed", "1")
    /\ UNCHANGED <<fsIn, written, mods, out, console, run>>

\* save_instructions, lines 205-208, then main, lines 235-236
WriteFile ==
    /\ pc = "write"
    /\ out' = TextFile(instructions)
    /\ console' = console \o <<"saved", "done">>
    /\ written' = Append(written, instructions)
    /\ Terminate("done", "0")
    /\ UNCHANGED <<fsIn, mods, bak, run, raised>>

\* open(..., 'w') or write raises: the file is untouched or truncated
WriteFails ==
    /\ pc = "write"
    /\ out' \in {out, TextFile(<<>>)}
    /\ raised' = "write"
    /\ Terminate("crashed", "1")
    /\ UNCHANGED <<fsIn, written, mods, bak, console, run>>

Next ==
    \/ GetAvailableMods
    \/ SelectLibraries
    \/ InteractiveAnswer
    \/ InteractiveError
    \/ TypeLine
    \/ FallbackRead
    \/ RemoveModFile
    \/ Generate
    \/ SaveInstructions
    \/ BackupCopy
    \/ BackupFails
    \/ WriteFile
    \/ WriteFails

Spec == Init /\ [][Next]_vars

\* the Selector alone, on every line up to MaxLineLen characters
InitSelector ==
    /\ modsDir = "dir"
    /\ mods \in {m \in ModsDirs : \A e \in DirEntries : m[e].kind = "file" => m[e].data # <<>>}
    /\ universal = TextFile(<<"U">>)
    /\ core = TextFile(<<"C", NL>>)
    /\ out = NoFile
    /\ bak = NoFile
    /\ hasQuestionary = FALSE
    /\ written = <<>>
    /\ InitRun

NextSelector ==
    \/ GetAvailableMods
    \/ SelectLibraries
    \/ TypeAnyLine
    \/ FallbackRead

SpecSelector == InitSelector /\ [][NextSelector]_vars

\* the tool is run again on the same directory after a completed run
Rerun ==
    /\ pc = "done"
    /\ Len(written) < MaxRuns
    /\ pc' = "start"
    /\ console' = <<>>
    /\ catalog' = <<>>
    /\ selected' = <<>>
    /\ stdin' = NoLine
    /\ depth' = 0
    /\ instructions' = <<>>
    /\ reads' = <<>>
    /\ emitted' = <<>>
    /\ raised' = "none"
    /\ exitStatus' = "none"
    /\ UNCHANGED <<fsIn, written, mods, out, bak>>

InitRuns ==
    /\ modsDir = "dir"
    /\ mods \in {m \in ModsDirs : m[Md(Ba)].kind = "file" /\ m[Md(Bar)].kind = "file"}
    /\ universal = TextFile(<<"U">>)
    /\ core \in {NoFile, TextFile(<<"C", NL>>)}
    /\ out = NoFile
    /\ bak = NoFile
    /\ hasQuestionary = TRUE
    /\ written = <<>>
    /\ InitRun

NextRuns ==
    \/ GetAvailableMods
    \/ SelectLibraries
    \/ InteractiveAnswer
    \/ Generate
    \/ SaveInstructions
    \/ BackupCopy
    \/ BackupFails
    \/ WriteFile
    \/ WriteFails
    \/ Rerun

SpecRuns == InitRuns /\ [][NextRuns]_vars

\* ================================================================== properties
\* the content the Document Reader yields for a file: "" when it is missing
TextOf(f) == IF f.kind = "file" THEN f.data ELSE <<>>

\* generate_instructions has returned in this run
Assembled ==
    \/ pc \in {"save", "backup", "write", "done"}
    \/ pc = "crashed" /\ raised \in {"copy", "write"}

\* universal + "\n\n" + core + "\n"
ExpectedPrefix == TextOf(universal) \o <<NL, NL>> \o TextOf(core) \o <<NL>>

HeaderLine ==
    <<"#", "#", " ", "L", "i", "b", "r", "a", "r", "y", "-", "S", "p", "e", "c", "i",
      "f", "i", "c", " ", "I", "n", "s", "t", "r", "u", "c", "t", "i", "o", "n", "s">>

RECURSIVE Flatten(_)
Flatten(ss) == IF ss = <<>> THEN <<>> ELSE Head(ss) \o Flatten(Tail(ss))

ModContent(m) == TextOf(mods[Md(m)])

Range(f) == {f[i] : i \in DOMAIN f}

\* C1: with a non-empty selection the output is the base prefix, the section header
\* and then the selected modules' contents in catalog order, each once, whatever
\* the order and repetition of the selection
C1_CatalogOrderEachOnce ==
    (Assembled /\ selected # <<>>) =>
        LET chosen(m) == m \in Range(selected) /\ ModContent(m) # <<>>
            inOrder   == SelectSeq(catalog, chosen)
        IN  instructions = ExpectedPrefix \o <<NL>> \o HeaderLine \o <<NL, NL>>
                \o Flatten([i \in DOMAIN inOrder |-> ModContent(inOrder[i]) \o <<NL, NL>>])

\* C2: whatever is selected, the output begins with universal, a blank line, core
\* and a newline
C2_BasePrefixFirst == Assembled => IsPrefix(ExpectedPrefix, instructions)

C2_Witness ==
    /\ pc = "done"
    /\ selected # <<>>
    /\ TextOf(universal) # <<>>
    /\ TextOf(core) # <<>>
    /\ Len(instructions) > Len(ExpectedPrefix)

\* C3: with an empty selection the output is exactly the base prefix, the section
\* header is nowhere in it, and no file of the modules directory is read
C3_EmptySelectionBaseOnly ==
    (selected = <<>> /\ (Assembled \/ raised = "read")) =>
        /\ \A i \in DOMAIN reads : reads[i].dir # "mods"
        /\ Assembled => /\ instructions = ExpectedPrefix
                        /\ ~Contains(instructions, HeaderLine)

C3_Witness ==
    /\ pc = "done"
    /\ selected = <<>>
    /\ catalog # <<>>
    /\ out = TextFile(ExpectedPrefix)

\* C4: starting without an output file, after the first completed run there is no
\* backup; after every later completed run the backup holds the text the run
\* before wrote and the output file holds the new text
C4_BackupIsPreviousOutput ==
    pc = "done" =>
        LET n == Len(written)
        IN  /\ n >= 1
            /\ out = TextFile(written[n])
            /\ bak = IF n = 1 THEN NoFile ELSE TextFile(written[n - 1])

C4_Witness ==
    /\ pc = "done"
    /\ Len(written) = 2
    /\ written[1] # written[2]
    /\ bak = TextFile(written[1])

\* C5: the text strategy returns the whole catalog on "all", nothing on "none",
\* and on integers joined by commas the modules at those 1-based positions,
\* in the order given, every position outside 1..n dropped
IndexValues == {-1, 0, 1, 2, 3, 5, 13}

DigitText(d) == <<DigitChars[d + 1]>>

NatText(k) == IF k < 10 THEN DigitText(k) ELSE DigitText(k \div 10) \o DigitText(k % 10)

IntText(k) == IF k < 0 THEN <<"-">> \o NatText(0 - k) ELSE NatText(k)

RECURSIVE Joined(_)
Joined(idxs) ==
    IF Len(idxs) = 1 THEN IntText(idxs[1])
    ELSE IntText(idxs[1]) \o <<",">> \o Joined(Tail(idxs))

Picked(idxs, available) ==
    LET valid(k) == k \in 1..Len(available)
        kept     == SelectSeq(idxs, valid)
    IN  [i \in DOMAIN kept |-> available[kept[i]]]

C5_TextSelection ==
    [][(pc = "fallback" /\ stdin.state = "typed" /\ stdin' # stdin) =>
          /\ stdin.text = <<"a", "l", "l">> => (pc' = "generate" /\ selected' = catalog)
          /\ stdin.text = <<"n", "o", "n", "e">> => (pc' = "generate" /\ selected' = <<>>)
          /\ \A idxs \in SeqsUpTo(IndexValues, 2) \ {<<>>} :
                stdin.text = Joined(idxs) =>
                    (pc' = "generate" /\ selected' = Picked(idxs, catalog))
          /\ (stdin.text = <<"1", ",", "3">> /\ Len(catalog) = 3) =>
                selected' = <<catalog[1], catalog[3]>>
          /\ stdin.text = <<"5">> => selected' = <<>>
      ]_vars

C5_Witness ==
    /\ pc = "generate"
    /\ stdin = [state |-> "accepted", text |-> <<"1", ",", "3">>]
    /\ catalog = <<Ba, Bar, Foo>>
    /\ selected = <<Ba, Foo>>

\* C6: a line that is not "all", not "none" and has a piece between commas that
\* is no integer gives no selection and no failure: the error message and the
\* prompt are printed again, any number of times in a row; every other line
\* ends the prompting with a selection
Digits == {"0", "1", "2", "3", "4", "5", "6", "7", "8", "9"}

\* [+-]? digit (_? digit)*
IntLiteral(t) ==
    LET body == IF t # <<>> /\ t[1] \in {"+", "-"} THEN SubSeq(t, 2, Len(t)) ELSE t
        n    == Len(body)
    IN  /\ n >= 1
        /\ body[1] \in Digits /\ body[n] \in Digits
        /\ \A i \in 1..n : body[i] \in Digits \cup {"_"}
        /\ \A i \in 1..(n - 1) : ~(body[i] = "_" /\ body[i + 1] = "_")

\* the piece of s between commas (or the ends) at positions i..j, blanks trimmed
PieceAt(s, i, j) ==
    LET inner == {k \in i..j : s[k] # " "}
    IN  IF inner = {} THEN <<>>
        ELSE SubSeq(s, CHOOSE a \in inner : \A k \in inner : a <= k,
                       CHOOSE b \in inner : \A k \in inner : b >= k)

Unparseable(line) ==
    LET s == Lower(Strip(line))
    IN  /\ s # <<"a", "l", "l">>
        /\ s # <<"n", "o", "n", "e">>
        /\ \E i \in DOMAIN s : \E j \in i..Len(s) :
              /\ i = 1 \/ s[i - 1] = ","
              /\ j = Len(s) \/ s[j + 1] = ","
              /\ \A k \in i..j : s[k] # ","
              /\ PieceAt(s, i, j) # <<>>
              /\ ~IntLiteral(PieceAt(s, i, j))

Printed(msg) == \E i \in DOMAIN console : console[i] = msg

Terminated == pc \in {"done", "exited", "crashed"}

\* C7: with questionary present and a non-empty catalog, a step out of the
\* checklist either returns its answer or, on an error, prints it and puts the
\* text prompt for the same catalog, the run going on; the selection then comes
\* from a line of text
C7_InteractiveErrorFallsBack ==
    /\ [](pc = "interactive" => hasQuestionary /\ catalog # <<>>)
    /\ [][pc = "interactive" =>
             \/ pc' = "interactive"
             \/ pc' = "generate" /\ console' = console
             \/ /\ pc' = "fallback"
                /\ console' = console \o <<"err_interactive", "list", "prompt">>
                /\ catalog' = catalog
                /\ selected' = selected
                /\ stdin' = NoLine
                /\ depth' = 0
                /\ raised' = "none"
                /\ exitStatus' = "none"
         ]_vars
    /\ []((Printed("err_interactive") /\ (Assembled \/ pc = "generate")) =>
             /\ stdin.state = "accepted"
             /\ raised # "interactive")

C7_Witness ==
    /\ pc = "done"
    /\ Printed("err_interactive")
    /\ hasQuestionary
    /\ selected # <<>>

\* some step other than the read of a typed line can be taken
OtherStep ==
    \/ GetAvailableMods \/ SelectLibraries \/ InteractiveAnswer \/ InteractiveError
    \/ TypeLine \/ Generate \/ SaveInstructions \/ BackupCopy \/ WriteFile

\* C8: without a modules directory the run ends in the catalog step with status 1,
\* having printed only the banner and the error, and no step of it changes the
\* output or the backup file; with one, the run never ends that way: it is at the
\* completion message with status 0, or was stopped by an I/O failure, or can
\* take a further step
C8_FatalOnlyWithoutModsDir ==
    /\ [](modsDir # "dir" => pc \in {"start", "exited"})
    /\ [](pc = "exited" =>
             /\ modsDir # "dir"
             /\ exitStatus = "1"
             /\ console = <<"header", "err_libdir">>
             /\ written = <<>>)
    /\ [][modsDir # "dir" => (out' = out /\ bak' = bak)]_vars
    /\ [](modsDir = "dir" =>
             \/ /\ pc = "done"
                /\ exitStatus = "0"
                /\ console[Len(console)] = "done"
             \/ /\ pc = "crashed"
                /\ raised \in {"read", "copy", "write"}
                /\ exitStatus = "1"
             \/ /\ ~Terminated
                /\ exitStatus = "none"
                /\ ~Printed("done")
                /\ (pc = "fallback" /\ stdin.state = "typed") \/ ENABLED OtherStep)

C8_Witness ==
    /\ pc = "exited"
    /\ modsDir = "file"
    /\ out = TextFile(OldText)
    /\ bak = TextFile(OlderText)

\* C9: a missing document never ends the run: it reads as "" with one warning;
\* with a non-empty selection the output is the base prefix, the section header
\* and, in the order selected, content + "\n\n" for exactly the selected modules
\* whose content is not empty
C9_MissingOrEmptyDocs ==
    /\ raised = "read" => (universal.kind = "dir" \/ core.kind = "dir")
    /\ Assembled =>
          LET fileAt(r) == IF r.dir = "mods" THEN mods[Md(r.stem)]
                           ELSE IF r.stem = Universal THEN universal ELSE core
              missing   == {i \in DOMAIN reads : fileAt(reads[i]).kind = "absent"}
              warnings  == {i \in DOMAIN console : console[i] = "warn_not_found"}
          IN  Cardinality(warnings) = Cardinality(missing)
    /\ (Assembled /\ selected # <<>>) =>
          LET hasText(m) == ModContent(m) # <<>>
              kept       == SelectSeq(selected, hasText)
          IN  instructions = ExpectedPrefix \o <<NL>> \o HeaderLine \o <<NL, NL>>
                  \o Flatten([i \in DOMAIN kept |-> ModContent(kept[i]) \o <<NL, NL>>])

C9_Witness ==
    /\ pc = "done"
    /\ universal = NoFile
    /\ \E i, j, k \in DOMAIN selected :
          /\ mods[Md(selected[i])] = NoFile
          /\ mods[Md(selected[j])] = TextFile(<<>>)
          /\ ModContent(selected[k]) # <<>>

\* C10: the output file is opened for writing only once the backup equals it; a
\* failed copy ends the run there with the output file as it was and nothing
\* written
C10_BackupBeforeWrite ==
    /\ []((pc = "write" /\ Exists(out)) => bak = out)
    /\ [][pc = "backup" =>
             \/ pc' = "backup"
             \/ pc' = "write" /\ bak' = out /\ out' = out /\ raised' = "none"
             \/ /\ pc' = "crashed"
                /\ raised' = "copy"
                /\ exitStatus' = "1"
                /\ out' = out
                /\ written' = written
         ]_vars
    /\ [][raised = "copy" => (pc' = "crashed" /\ out' = out)]_vars
    /\ [](raised = "copy" => (pc = "crashed" /\ ~Printed("saved") /\ Exists(out)))

C10_Witness ==
    /\ pc = "crashed"
    /\ raised = "copy"
    /\ out = TextFile(OldText)
    /\ bak # out

====
